---- MODULE Spec2Model ----
(***************************************************************************)
(* Model of the array utilities (extractAt, removeAt, concat, isNonEmpty, *)
(* asNonEmpty, zip, adjacentPairs) and of `assert`.                       *)
(*                                                                         *)
(* The functions are pure: the state holds the array a caller owns, the   *)
(* last call made on it (the function and its other argument) and the     *)
(* outcome of that call (a returned value or a thrown error).             *)
(*                                                                         *)
(* withTimeout (src/utils/promise.ts) is asynchronous: for it the state   *)
(* also holds the promises involved, the microtask queue and the timer.   *)
(***************************************************************************)
EXTENDS Integers, Sequences, FiniteSets

VARIABLES array, call, result, promises, jobs, timer, task, first

\* the state of the event loop, which only withTimeout touches
async == <<promises, jobs, timer, task, first>>

vars == <<array, call, result, promises, jobs, timer, task, first>>

(***************************************************************************)
(* Bounds of the model.                                                    *)
(***************************************************************************)
\* longest array a caller passes as `array` / `arrayA` / `array1`
MaxLen == 3
\* longest array a caller passes as `arrayB` / `array2`
MaxOther == 2

(***************************************************************************)
(* JavaScript values.                                                      *)
(***************************************************************************)
Undefined == [type |-> "undefined"]

Num(n) == [type |-> "number", val |-> n]

Str(s) == [type |-> "string", val |-> s]

\* a template literal `text${value}`
Template(s, v) == [type |-> "string", val |-> s, subst |-> v]

\* an array object: `ref` is its identity (===), `items` its elements
Arr(r, items) == [type |-> "array", ref |-> r, items |-> items]

\* an array created by the callee (slice, spread, concat, map, a literal)
NewArr(items) == Arr("new", items)

\* a number passed as `index`: an integer k, or the non-integer k + 1/2
Integer(k) == [type |-> "number", isInteger |-> TRUE, val |-> k]

Half(k) == [type |-> "number", isInteger |-> FALSE, val |-> k]

\* element values: two numbers, and `undefined` (T is unconstrained)
Elements == {Num(1), Num(2), Undefined}

SeqsUpTo(S, n) == UNION {[1..k -> S] : k \in 0..n}

\* the indices a caller passes: every integer around the array's bounds,
\* and non-integers in and out of the bounds
IndexBound == MaxLen + 2

Indices ==
    {Integer(k) : k \in -IndexBound..IndexBound}
        \cup {Half(k) : k \in {-IndexBound, -1, 0, IndexBound}}

(***************************************************************************)
(* Outcome of a call: a returned value or a thrown error.                  *)
(***************************************************************************)
Return(v) == [tag |-> "return", value |-> v]

Throw(e) == [tag |-> "throw", error |-> e]

Bool(b) == [type |-> "boolean", val |-> b]

\* new Error(message)
Error(message) == [type |-> "error", name |-> "Error", message |-> message]

(***************************************************************************)
(* Built-ins the utilities call.                                           *)
(***************************************************************************)
Min(a, b) == IF a <= b THEN a ELSE b

Max(a, b) == IF a >= b THEN a ELSE b

\* mutant: any number passes for an integer
NumberIsIntegerAnyNumber(n) == n.type = "number"

\* Number.isInteger(index)
NumberIsInteger(n) == n.isInteger

\* mutant: an index past either end is clamped to the nearest element
ArrayAtClamped(items, k) ==
    LET n == IF k >= 0 THEN k ELSE Len(items) + k
    IN  IF items = <<>> THEN Undefined
        ELSE items[Max(0, Min(n, Len(items) - 1)) + 1]

\* mutant: the range the doc comments' examples describe, where the index
\* -length is already out of bounds
ArrayAtExclusiveStart(items, k) ==
    LET n == IF k >= 0 THEN k ELSE Len(items) + k
    IN  IF n < 0 \/ n >= Len(items) \/ (k < 0 /\ n = 0)
        THEN Undefined ELSE items[n + 1]

\* Array.prototype.at: a negative index counts from the end; a position
\* outside 0..length-1 reads undefined
ArrayAt(items, k) ==
    LET n == IF k >= 0 THEN k ELSE Len(items) + k
    IN  IF n < 0 \/ n >= Len(items) THEN Undefined ELSE items[n + 1]

\* items[k]: a position outside 0..length-1 reads undefined
ArrayGet(items, k) ==
    IF k < 0 \/ k >= Len(items) THEN Undefined ELSE items[k + 1]

\* the clamping Array.prototype.slice applies to each of its arguments
RelativeIndex(k, len) ==
    IF k < 0 THEN Max(len + k, 0) ELSE Min(k, len)

\* Array.prototype.slice(start, end)
ArraySlice(items, start, end) ==
    LET from == RelativeIndex(start, Len(items))
        to   == RelativeIndex(end, Len(items))
    IN  SubSeq(items, from + 1, to)

\* Array.prototype.slice(start)
ArraySliceFrom(items, start) == ArraySlice(items, start, Len(items))

\* const [_, ...rest] = items
RestItems(items) == IF items = <<>> THEN <<>> ELSE Tail(items)

(***************************************************************************)
(* src/utils/assert.ts                                                     *)
(***************************************************************************)
\* the outcome of assert(condition, failureMessage); a normal completion
\* returns undefined
assert(condition, failureMessage) ==
    IF condition = FALSE
    THEN Throw(Error(IF failureMessage = Undefined
                     THEN Str("assertion failure")
                     ELSE failureMessage))
    ELSE Return(Undefined)

(***************************************************************************)
(* The array utilities.                                                    *)
(***************************************************************************)
extractAt(i, a) ==
    LET checked == assert(NumberIsInteger(i),
                          Template("expected integer valued index, got ", i))
    IN  IF checked.tag = "throw" THEN checked
        ELSE LET item == ArrayAt(a.items, i.val)
             IN  IF item = Undefined
                 THEN Return(Undefined)
                 ELSE LET prefix == ArraySlice(a.items, 0, i.val)
                          suffix == RestItems(ArraySliceFrom(a.items, i.val))
                      IN  Return(NewArr(<<item, NewArr(prefix \o suffix)>>))

removeAt(i, a) ==
    LET decomposed == extractAt(i, a)
    IN  IF decomposed.tag = "throw" THEN decomposed
        ELSE IF decomposed.value = Undefined
             THEN Return(a)
             ELSE Return(decomposed.value.items[2])

isNonEmpty(a) == Len(a.items) > 0

\* mutant: the assertion is missing
asNonEmptyUnchecked(a) == Return(a)

asNonEmpty(a) ==
    LET checked == assert(isNonEmpty(a),
                          Str("got empty array where at least one element is required"))
    IN  IF checked.tag = "throw" THEN checked ELSE Return(a)

\* mutant: the operands are swapped
concatSwapped(a, b) == asNonEmpty(NewArr(b.items \o a.items))

concat(a, b) == asNonEmpty(NewArr(a.items \o b.items))

\* mutant: the comparison is inverted, so the longer array is mapped
zipLonger(a, b) ==
    IF Len(a.items) >= Len(b.items)
    THEN Return(NewArr([k \in 1..Len(a.items) |->
                    NewArr(<<a.items[k], ArrayGet(b.items, k - 1)>>)]))
    ELSE Return(NewArr([k \in 1..Len(b.items) |->
                    NewArr(<<ArrayGet(a.items, k - 1), b.items[k]>>)]))

zip(a, b) ==
    IF Len(a.items) <= Len(b.items)
    THEN Return(NewArr([k \in 1..Len(a.items) |->
                    NewArr(<<a.items[k], ArrayGet(b.items, k - 1)>>)]))
    ELSE Return(NewArr([k \in 1..Len(b.items) |->
                    NewArr(<<ArrayGet(a.items, k - 1), b.items[k]>>)]))

\* mutant: the second slice starts one element late
adjacentPairsSkipping(a) ==
    zip(NewArr(ArraySlice(a.items, 0, -1)), NewArr(ArraySliceFrom(a.items, 2)))

adjacentPairs(a) ==
    zip(NewArr(ArraySlice(a.items, 0, -1)), NewArr(ArraySliceFrom(a.items, 1)))

(***************************************************************************)
(* Promises and the event loop.                                            *)
(***************************************************************************)
\* the promises of one withTimeout call: the given `promise`, the promise of
\* sleep(time), `timeout`, the promise of Promise.race and the promise the
\* async function returns
PromiseIds == {"promise", "sleep", "timeout", "race", "returned"}

\* a promise: its state, its value or reason, and the reactions waiting on it
Pending == [state |-> "pending", value |-> Undefined, reactions |-> <<>>]

Fulfilled(v) == [state |-> "fulfilled", value |-> v, reactions |-> <<>>]

Rejected(e) == [state |-> "rejected", value |-> e, reactions |-> <<>>]

\* no withTimeout call is under way
AsyncIdle ==
    /\ promises = [id \in PromiseIds |-> Pending]
    /\ jobs = <<>>
    /\ timer = "none"
    /\ task = "caller"
    /\ first = "none"

(***************************************************************************)
(* The state machine: a caller holds `array` and calls the utilities.      *)
(***************************************************************************)
InputArrays == {Arr("array", s) : s \in SeqsUpTo(Elements, MaxLen)}

OtherArrays == {Arr("other", s) : s \in SeqsUpTo(Elements, MaxOther)}

Init ==
    /\ array \in InputArrays
    /\ call = [op |-> "none"]
    /\ result = Return(Undefined)
    /\ AsyncIdle

CallExtractAt ==
    \E i \in Indices :
        /\ call' = [op |-> "extractAt", index |-> i]
        /\ result' = extractAt(i, array)
        /\ UNCHANGED <<array, async>>

CallRemoveAt ==
    \E i \in Indices :
        /\ call' = [op |-> "removeAt", index |-> i]
        /\ result' = removeAt(i, array)
        /\ UNCHANGED <<array, async>>

CallIsNonEmpty ==
    /\ call' = [op |-> "isNonEmpty"]
    /\ result' = Return(Bool(isNonEmpty(array)))
    /\ UNCHANGED <<array, async>>

CallAsNonEmpty ==
    /\ call' = [op |-> "asNonEmpty"]
    /\ result' = asNonEmpty(array)
    /\ UNCHANGED <<array, async>>

CallConcat ==
    \E b \in OtherArrays :
        /\ call' = [op |-> "concat", other |-> b]
        /\ result' = concat(array, b)
        /\ UNCHANGED <<array, async>>

CallZip ==
    \E b \in OtherArrays :
        /\ call' = [op |-> "zip", other |-> b]
        /\ result' = zip(array, b)
        /\ UNCHANGED <<array, async>>

CallAdjacentPairs ==
    /\ call' = [op |-> "adjacentPairs"]
    /\ result' = adjacentPairs(array)
    /\ UNCHANGED <<array, async>>

Next ==
    \/ CallExtractAt
    \/ CallRemoveAt
    \/ CallIsNonEmpty
    \/ CallAsNonEmpty
    \/ CallConcat
    \/ CallZip
    \/ CallAdjacentPairs

Spec == Init /\ [][Next]_vars

\* the arrays of numbers the doc comments and the tests use, [0,1,2] among them
Numbers == {Num(0), Num(1), Num(2)}

NumberArrays == {Arr("array", s) : s \in SeqsUpTo(Numbers, MaxLen)}

InitNumbers ==
    /\ array \in NumberArrays
    /\ call = [op |-> "none"]
    /\ result = Return(Undefined)
    /\ AsyncIdle

SpecNumbers == InitNumbers /\ [][Next]_vars

(***************************************************************************)
(* src/utils/string.ts: stripPrefix, stripSuffix.                          *)
(*                                                                         *)
(* A string is its sequence of code units; no array is involved, and       *)
(* `call` holds the two strings the caller passes.                         *)
(***************************************************************************)
\* longest `prefix` / `suffix` a caller passes
MaxAffix == 2

\* `str` is long enough to be any prefix followed by any suffix
StrBound == 2 * MaxAffix

JsString(units) == [type |-> "string", units |-> units]

CodeUnits == {"a", "b"}

Affixes == {JsString(u) : u \in SeqsUpTo(CodeUnits, MaxAffix)}

Strings == {JsString(u) : u \in SeqsUpTo(CodeUnits, StrBound)}

\* String.prototype.startsWith(search)
StringStartsWith(str, search) ==
    /\ Len(search.units) <= Len(str.units)
    /\ \A k \in 1..Len(search.units) : str.units[k] = search.units[k]

\* String.prototype.endsWith(search)
StringEndsWith(str, search) ==
    LET start == Len(str.units) - Len(search.units)
    IN  /\ start >= 0
        /\ \A k \in 1..Len(search.units) : str.units[start + k] = search.units[k]

\* String.prototype.slice(start, end)
StringSlice(str, start, end) ==
    LET from == RelativeIndex(start, Len(str.units))
        to   == RelativeIndex(end, Len(str.units))
    IN  JsString(SubSeq(str.units, from + 1, to))

\* String.prototype.slice(start)
StringSliceFrom(str, start) == StringSlice(str, start, Len(str.units))

stripPrefix(prefix, str) ==
    IF StringStartsWith(str, prefix)
    THEN Return(StringSliceFrom(str, Len(prefix.units)))
    ELSE Return(Undefined)

\* mutant: the end of the slice is counted from the end of `str`
stripSuffixNegativeEnd(suffix, str) ==
    IF StringEndsWith(str, suffix)
    THEN Return(StringSlice(str, 0, -Len(suffix.units)))
    ELSE Return(Undefined)

stripSuffix(suffix, str) ==
    IF StringEndsWith(str, suffix)
    THEN Return(StringSlice(str, 0, Len(str.units) - Len(suffix.units)))
    ELSE Return(Undefined)

InitString ==
    /\ array = Arr("array", <<>>)
    /\ call \in {[op |-> "none", affix |-> x, str |-> s] :
                    x \in Affixes, s \in Strings}
    /\ result = Return(Undefined)
    /\ AsyncIdle

CallStripPrefix ==
    /\ call' = [call EXCEPT !.op = "stripPrefix"]
    /\ result' = stripPrefix(call.affix, call.str)
    /\ UNCHANGED <<array, async>>

CallStripSuffix ==
    /\ call' = [call EXCEPT !.op = "stripSuffix"]
    /\ result' = stripSuffix(call.affix, call.str)
    /\ UNCHANGED <<array, async>>

NextString ==
    \/ CallStripPrefix
    \/ CallStripSuffix

SpecString == InitString /\ [][NextString]_vars

(***************************************************************************)
(* src/utils/promise.ts: sleep, withTimeout.                               *)
(*                                                                         *)
(* The given promise is settled by code outside withTimeout; the timer     *)
(* fires as a task of its own. Reactions run as microtasks, in the order  *)
(* they were queued, and no task starts while a microtask is queued.      *)
(***************************************************************************)
\* the `time` arguments a caller passes
Times == {0, 100}

\* the ways the given promise settles
GivenOutcomes ==
    {Fulfilled(Num(1)), Fulfilled(Num(2)), Rejected(Error(Str("given promise failed")))}

\* `promise timed out after ${time}ms`
TimeoutMessage(time) ==
    [type |-> "string", val |-> "promise timed out after ", subst |-> Num(time),
     tail |-> "ms"]

\* const error = new Error(`promise timed out after ${time}ms`)
TimeoutError(time) == Error(TimeoutMessage(time))

\* the microtasks: a reaction passing the outcome of `from` on to `to`
\* (the resolving functions of `to` given to from.then), the callback given to
\* sleep(time).then, and the job that makes the returned promise follow the
\* promise of Promise.race
Reaction(from, to) == [kind |-> "reaction", from |-> from, to |-> to]

TimeoutCallbackJob == [kind |-> "timeoutCallback"]

FollowRaceJob == [kind |-> "followRace"]

\* promises and microtask queue, as one value
Loop(ps, js) == [promises |-> ps, jobs |-> js]

\* the resolving functions of promise `id`, called with `outcome`: they settle
\* a pending promise and queue its reactions; on a settled promise they do
\* nothing
Settle(loop, id, outcome) ==
    IF loop.promises[id].state # "pending"
    THEN loop
    ELSE Loop([loop.promises EXCEPT ![id] = outcome],
              loop.jobs \o loop.promises[id].reactions)

\* promises[id].then(...): the reaction waits while the promise is pending and
\* is queued at once when it is settled
Then(loop, id, job) ==
    IF loop.promises[id].state = "pending"
    THEN Loop([loop.promises EXCEPT ![id].reactions = @ \o <<job>>], loop.jobs)
    ELSE Loop(loop.promises, loop.jobs \o <<job>>)

\* mutant: the callback returns the error instead of throwing it
TimeoutCallbackReturning(time) == Fulfilled(TimeoutError(time))

\* the outcome of the callback () => { throw error }
TimeoutCallback(time) == Rejected(TimeoutError(time))

\* Promise.race([promise, timeout]): the race promise reacts to both, in order
PromiseRace(loop) ==
    Then(Then(loop, "promise", Reaction("promise", "race")),
         "timeout", Reaction("timeout", "race"))

InitTimeout ==
    /\ array = Arr("array", <<>>)
    /\ call \in {[op |-> "none", time |-> t] : t \in Times}
    /\ result = Return(Undefined)
    /\ \E given \in {Pending} \cup GivenOutcomes :
           /\ promises = [id \in PromiseIds |->
                              IF id = "promise" THEN given ELSE Pending]
           /\ first = IF given = Pending THEN "none" ELSE "promise"
    /\ jobs = <<>>
    /\ timer = "none"
    /\ task = "caller"

\* the synchronous part of withTimeout(time, promise): sleep(time) arms the
\* timer, `timeout` waits on it, Promise.race reacts to both promises, and the
\* async function resolves its promise with the promise of the race
CallWithTimeout ==
    /\ call.op = "none"
    /\ LET slept  == Then(Loop(promises, jobs), "sleep", TimeoutCallbackJob)
           raced  == PromiseRace(slept)
       IN  /\ promises' = raced.promises
           /\ jobs' = raced.jobs \o <<FollowRaceJob>>
    /\ timer' = "armed"
    /\ call' = [call EXCEPT !.op = "withTimeout"]
    /\ result' = Return([type |-> "promise", id |-> "returned"])
    /\ UNCHANGED <<array, task, first>>

\* code outside withTimeout settles the given promise. It cannot run between
\* the timer's callback and the microtasks that callback queued.
GivenPromiseSettles ==
    /\ promises["promise"].state = "pending"
    /\ ~(task = "timer" /\ jobs # <<>>)
    /\ \E outcome \in GivenOutcomes :
           LET settled == Settle(Loop(promises, jobs), "promise", outcome)
           IN  /\ promises' = settled.promises
               /\ jobs' = settled.jobs
    /\ first' = IF first = "none" THEN "promise" ELSE first
    /\ task' = IF jobs = <<>> THEN "other" ELSE task
    /\ UNCHANGED <<array, call, result, timer>>

\* setTimeout(resolve, time): a task of its own, which resolves the promise of
\* sleep(time)
TimerFires ==
    /\ timer = "armed"
    /\ jobs = <<>>
    /\ LET settled == Settle(Loop(promises, jobs), "sleep", Fulfilled(Undefined))
       IN  /\ promises' = settled.promises
           /\ jobs' = settled.jobs
    /\ timer' = "fired"
    /\ task' = "timer"
    /\ first' = IF first = "none" THEN "timer" ELSE first
    /\ UNCHANGED <<array, call, result>>

\* a reaction of the race promise, or of the returned promise, runs
RunReaction ==
    /\ jobs # <<>>
    /\ Head(jobs).kind = "reaction"
    /\ LET job     == Head(jobs)
           outcome == [promises[job.from] EXCEPT !.reactions = <<>>]
           settled == Settle(Loop(promises, Tail(jobs)), job.to, outcome)
       IN  /\ promises' = settled.promises
           /\ jobs' = settled.jobs
    /\ UNCHANGED <<array, call, result, timer, task, first>>

\* the callback given to sleep(time).then runs and `timeout` is rejected
RunTimeoutCallback ==
    /\ jobs # <<>>
    /\ Head(jobs).kind = "timeoutCallback"
    /\ LET settled == Settle(Loop(promises, Tail(jobs)), "timeout",
                             TimeoutCallback(call.time))
       IN  /\ promises' = settled.promises
           /\ jobs' = settled.jobs
    /\ UNCHANGED <<array, call, result, timer, task, first>>

\* the returned promise starts to follow the promise of the race
RunFollowRace ==
    /\ jobs # <<>>
    /\ Head(jobs).kind = "followRace"
    /\ LET followed == Then(Loop(promises, Tail(jobs)), "race",
                            Reaction("race", "returned"))
       IN  /\ promises' = followed.promises
           /\ jobs' = followed.jobs
    /\ UNCHANGED <<array, call, result, timer, task, first>>

NextTimeout ==
    \/ CallWithTimeout
    \/ GivenPromiseSettles
    \/ TimerFires
    \/ RunReaction
    \/ RunTimeoutCallback
    \/ RunFollowRace

SpecTimeout == InitTimeout /\ [][NextTimeout]_vars

(***************************************************************************)
(* Vocabulary of the properties, in terms of plain sequences.              *)
(***************************************************************************)
\* the valid range of an index into s: -len(s) <= i < len(s)
InRange(i, s) == -Len(s) <= i /\ i < Len(s)

\* the 0-based position an in-range index addresses
Position(i, s) == IF i < 0 THEN Len(s) + i ELSE i

\* s without the element at the 0-based position p
Without(s, p) == SubSeq(s, 1, p) \o SubSeq(s, p + 2, Len(s))

\* the outcome r is the returned pair (x, rest)
ReturnsPair(r, x, rest) ==
    /\ r.tag = "return"
    /\ r.value.type = "array"
    /\ Len(r.value.items) = 2
    /\ r.value.items[1] = x
    /\ r.value.items[2].type = "array"
    /\ r.value.items[2].items = rest

\* the outcome r is a returned array
ReturnsArray(r) == r.tag = "return" /\ r.value.type = "array"

IntegerCall(name) == call.op = name /\ call.index.isInteger

(***************************************************************************)
(* extractAt                                                               *)
(***************************************************************************)
\* C1: for every split array = prefix ++ [x] ++ suffix, extractAt(len(prefix), array)
\* and extractAt(-(len(suffix)+1), array) both return the pair (x, prefix ++ suffix).
C1_ExtractAtSplit ==
    IntegerCall("extractAt") =>
        \A p \in 1..Len(array.items) :
            LET prefix == SubSeq(array.items, 1, p - 1)
                x      == array.items[p]
                suffix == SubSeq(array.items, p + 1, Len(array.items))
            IN  (call.index.val = Len(prefix) \/ call.index.val = -(Len(suffix) + 1))
                    => ReturnsPair(result, x, prefix \o suffix)

\* The split law of C1 holds whenever the addressed item x is not `undefined`.
ExtractAtSplitOfDefinedItem ==
    IntegerCall("extractAt") =>
        \A p \in 1..Len(array.items) :
            LET prefix == SubSeq(array.items, 1, p - 1)
                x      == array.items[p]
                suffix == SubSeq(array.items, p + 1, Len(array.items))
            IN  /\ x # Undefined
                /\ (call.index.val = Len(prefix) \/ call.index.val = -(Len(suffix) + 1))
                => ReturnsPair(result, x, prefix \o suffix)

\* C2: for every integer index with index < -len(array) or index >= len(array),
\* extractAt returns undefined as a normal result and throws nothing.
C2_OutOfRangeIsAbsent ==
    IntegerCall("extractAt") /\ ~InRange(call.index.val, array.items)
        => result = Return(Undefined)

\* extractAt was called one past the end, and one before the start, of a
\* non-empty array
C2_Witness ==
    /\ IntegerCall("extractAt")
    /\ Len(array.items) > 0
    /\ call.index.val \in {Len(array.items), -Len(array.items) - 1}
    /\ result = Return(Undefined)

(***************************************************************************)
(* removeAt                                                                *)
(***************************************************************************)
\* C3: for every in-range integer index, removeAt returns the array with exactly
\* the element at that position removed, the others in their order (so the
\* result is one element shorter).
C3_RemoveAtRemoves ==
    IntegerCall("removeAt") /\ InRange(call.index.val, array.items)
        => /\ ReturnsArray(result)
           /\ result.value.items =
                  Without(array.items, Position(call.index.val, array.items))
           /\ Len(result.value.items) = Len(array.items) - 1

\* The removal of C3 holds whenever the addressed item is not `undefined`.
RemoveAtRemovesDefinedItem ==
    /\ IntegerCall("removeAt")
    /\ InRange(call.index.val, array.items)
    /\ ArrayAt(array.items, call.index.val) # Undefined
    => /\ ReturnsArray(result)
       /\ result.value.items =
              Without(array.items, Position(call.index.val, array.items))

\* C4: for every out-of-range integer index, index == len(array) and
\* index == -len(array)-1 included, removeAt returns the original array itself
\* (same reference, unchanged); index == len(array)-1 removes the last element.
C4_RemoveAtOutOfRangeIsIdentity ==
    IntegerCall("removeAt") =>
        /\ ~InRange(call.index.val, array.items) => result = Return(array)
        /\ (Len(array.items) > 0 /\ call.index.val = Len(array.items) - 1)
               => /\ ReturnsArray(result)
                  /\ result.value.items =
                         SubSeq(array.items, 1, Len(array.items) - 1)

\* The frame half of C4: out of range, the very same array comes back.
RemoveAtOutOfRangeReturnsSameArray ==
    IntegerCall("removeAt") /\ ~InRange(call.index.val, array.items)
        => result = Return(array)

\* C5: removeAt has no error path: for every index (in range, out of range or
\* not an integer) it returns a sequence and never throws.
C5_RemoveAtNeverThrows ==
    call.op = "removeAt" => ReturnsArray(result)

\* C5, amended: removeAt returns a sequence for every integer index (in range
\* or not), and for a non-integer index it throws the assertion error of
\* extractAt.
C5_RemoveAtThrowsOnlyOnNonInteger ==
    call.op = "removeAt" =>
        IF call.index.isInteger
        THEN ReturnsArray(result)
        ELSE /\ result.tag = "throw"
             /\ result.error.name = "Error"
             /\ result.error.message =
                    Template("expected integer valued index, got ", call.index)

\* removeAt was called with a non-integer index and threw
C5_Witness ==
    /\ call.op = "removeAt"
    /\ ~call.index.isInteger
    /\ result.tag = "throw"

(***************************************************************************)
(* zip, adjacentPairs                                                      *)
(***************************************************************************)
\* the returned array of pairs, as a sequence of 2-tuples
PairsOf(r) == [k \in 1..Len(r.value.items) |-> r.value.items[k].items]

\* every entry of the returned array is a 2-element array
ReturnsPairs(r) ==
    /\ ReturnsArray(r)
    /\ \A k \in 1..Len(r.value.items) :
           /\ r.value.items[k].type = "array"
           /\ Len(r.value.items[k].items) = 2

\* C6: zip(a, b) has length min(len(a), len(b)), its k-th entry is the pair
\* (a[k], b[k]), and no pair holds a padding value, whichever array is shorter.
C6_ZipTruncatesToShorter ==
    call.op = "zip" =>
        LET a == array.items
            b == call.other.items
            n == IF Len(a) <= Len(b) THEN Len(a) ELSE Len(b)
        IN  /\ ReturnsPairs(result)
            /\ Len(result.value.items) = n
            /\ \A k \in 1..n : PairsOf(result)[k] = <<a[k], b[k]>>
            /\ (\A k \in 1..Len(a) : a[k] # Undefined)
                   /\ (\A k \in 1..Len(b) : b[k] # Undefined)
               => \A k \in 1..Len(result.value.items) :
                      /\ PairsOf(result)[k][1] # Undefined
                      /\ PairsOf(result)[k][2] # Undefined

\* zip was called with a first array longer than a non-empty second one
C6_Witness ==
    /\ call.op = "zip"
    /\ Len(array.items) > Len(call.other.items)
    /\ Len(call.other.items) > 0
    /\ Len(result.value.items) = Len(call.other.items)

\* zip was called with a non-empty first array shorter than the second one
ZipFirstShorterReached ==
    /\ call.op = "zip"
    /\ Len(array.items) < Len(call.other.items)
    /\ Len(array.items) > 0
    /\ Len(result.value.items) = Len(array.items)

\* C7: adjacentPairs(s) is the sequence of the pairs (s[k], s[k+1]), in order:
\* empty when len(s) <= 1, of len(s)-1 entries otherwise, and equal to
\* zip(s without its last element, s without its first element).
C7_AdjacentPairs ==
    call.op = "adjacentPairs" =>
        LET s == array.items
            n == IF Len(s) <= 1 THEN 0 ELSE Len(s) - 1
        IN  /\ ReturnsPairs(result)
            /\ Len(result.value.items) = n
            /\ \A k \in 1..n : PairsOf(result)[k] = <<s[k], s[k + 1]>>
            /\ result = zip(NewArr(SubSeq(s, 1, Len(s) - 1)),
                            NewArr(SubSeq(s, 2, Len(s))))

\* adjacentPairs was called on an array of three elements and returned two pairs
C7_Witness ==
    /\ call.op = "adjacentPairs"
    /\ Len(array.items) = 3
    /\ Len(result.value.items) = 2

(***************************************************************************)
(* concat, asNonEmpty, isNonEmpty                                          *)
(***************************************************************************)
\* C8: when at least one of a, b is non-empty, concat(a, b) returns a ++ b
\* (length len(a)+len(b) >= 1) and its assertion does not fail; the assertion
\* fails only when both are empty.
C8_ConcatNonEmpty ==
    call.op = "concat" =>
        LET a == array.items
            b == call.other.items
        IN  IF Len(a) > 0 \/ Len(b) > 0
            THEN /\ ReturnsArray(result)
                 /\ result.value.items = a \o b
                 /\ Len(result.value.items) = Len(a) + Len(b)
                 /\ Len(result.value.items) >= 1
            ELSE result.tag = "throw"

\* concat was called with two non-empty arrays and returned
C8_Witness ==
    /\ call.op = "concat"
    /\ Len(array.items) > 0
    /\ Len(call.other.items) > 0
    /\ result.tag = "return"

\* C9: asNonEmpty(seq) returns seq itself when len(seq) >= 1; when seq is empty
\* it fails with an InvariantViolation error carrying a diagnostic message;
\* isNonEmpty(seq) is true exactly when asNonEmpty(seq) does not fail.
C9_AsNonEmptyInvariantViolation ==
    /\ call.op = "asNonEmpty" =>
           IF Len(array.items) >= 1
           THEN result = Return(array)
           ELSE /\ result.tag = "throw"
                /\ result.error.name = "InvariantViolation"
                /\ result.error.message.type = "string"
                /\ result.error.message.val # ""
    /\ call.op = "isNonEmpty" =>
           result = Return(Bool(asNonEmpty(array).tag = "return"))

\* C9, amended: as C9, but the error thrown for an empty seq is a plain Error
\* (the one `assert` throws), carrying the diagnostic message.
C9_AsNonEmptyPlainError ==
    /\ call.op = "asNonEmpty" =>
           IF Len(array.items) >= 1
           THEN result = Return(array)
           ELSE /\ result.tag = "throw"
                /\ result.error.name = "Error"
                /\ result.error.message.type = "string"
                /\ result.error.message.val # ""
    /\ call.op = "isNonEmpty" =>
           result = Return(Bool(asNonEmpty(array).tag = "return"))

\* asNonEmpty was called on the empty array and threw
C9_Witness ==
    /\ call.op = "asNonEmpty"
    /\ array.items = <<>>
    /\ result.tag = "throw"

(***************************************************************************)
(* Round trip                                                              *)
(***************************************************************************)
\* rest with item put back so that it sits at index i of the outcome
\* (a negative i counts from the end of the outcome)
InsertAt(i, item, rest) ==
    LET p == IF i < 0 THEN Len(rest) + 1 + i ELSE i
    IN  SubSeq(rest, 1, p) \o <<item>> \o SubSeq(rest, p + 1, Len(rest))

\* C10: for every in-range integer index i (negative ones included), with
\* (item, rest) = extractAt(i, s), putting item back into rest at position i
\* gives s again.
C10_ExtractInsertRoundTrip ==
    IntegerCall("extractAt") /\ InRange(call.index.val, array.items)
        => /\ ReturnsArray(result)
           /\ Len(result.value.items) = 2
           /\ InsertAt(call.index.val, result.value.items[1],
                       result.value.items[2].items) = array.items

\* The round trip of C10 holds whenever the addressed item is not `undefined`.
RoundTripOfDefinedItem ==
    /\ IntegerCall("extractAt")
    /\ InRange(call.index.val, array.items)
    /\ ArrayAt(array.items, call.index.val) # Undefined
    => /\ ReturnsArray(result)
       /\ InsertAt(call.index.val, result.value.items[1],
                   result.value.items[2].items) = array.items

(***************************************************************************)
(* The index -length                                                       *)
(***************************************************************************)
\* the array [0,1,2] of the doc comments
DocArray == <<Num(0), Num(1), Num(2)>>

Splits(u) == {<<SubSeq(u, 1, k), SubSeq(u, k + 1, Len(u))>> : k \in 0..Len(u)}

\* C12: stripPrefix and stripSuffix undo concatenation: for all strings p and s
\* (either may be empty), stripPrefix(p, p+s) = s and stripSuffix(s, p+s) = p;
\* stripPrefix(x, str) is undefined when str does not start with x, and
\* stripSuffix(x, str) is undefined when str does not end with x.
C12_StripUndoesConcatenation ==
    /\ call.op = "stripPrefix" =>
           /\ \A ps \in Splits(call.str.units) :
                  ps[1] = call.affix.units => result = Return(JsString(ps[2]))
           /\ (\A ps \in Splits(call.str.units) : ps[1] # call.affix.units)
                  => result = Return(Undefined)
    /\ call.op = "stripSuffix" =>
           /\ \A ps \in Splits(call.str.units) :
                  ps[2] = call.affix.units => result = Return(JsString(ps[1]))
           /\ (\A ps \in Splits(call.str.units) : ps[2] # call.affix.units)
                  => result = Return(Undefined)

\* stripSuffix("", str) was called on a non-empty str and returned str
C12_Witness ==
    /\ call.op = "stripSuffix"
    /\ call.affix.units = <<>>
    /\ call.str.units # <<>>
    /\ result = Return(call.str)

\* stripPrefix(p, p+s) was called with p and s non-empty and returned s
StripPrefixOfConcatenationReached ==
    /\ call.op = "stripPrefix"
    /\ call.affix.units = <<"a", "b">>
    /\ call.str.units = <<"a", "b", "b", "a">>
    /\ result = Return(JsString(<<"b", "a">>))

\* stripPrefix was called on a str that does not start with the prefix
StripPrefixMismatchReached ==
    /\ call.op = "stripPrefix"
    /\ call.affix.units = <<"b">>
    /\ call.str.units = <<"a", "b">>
    /\ result = Return(Undefined)

(***************************************************************************)
(* withTimeout                                                             *)
(***************************************************************************)
\* the promise has settled
Settled(id) == promises[id].state # "pending"

\* state and value of a promise
OutcomeOf(id) == [state |-> promises[id].state, value |-> promises[id].value]

\* the outcome "rejected with the 'promise timed out' error"
TimedOut ==
    [state |-> "rejected", value |-> Error(TimeoutMessage(call.time))]

\* the returned promise, once settled, holds the outcome of whichever happened
\* first; and it is settled once the microtasks of that event have run
ReturnedFollowsFirst ==
    /\ Settled("returned") =>
           /\ call.op = "withTimeout"
           /\ first # "none"
           /\ first = "promise" => OutcomeOf("returned") = OutcomeOf("promise")
           /\ first = "timer" => OutcomeOf("returned") = TimedOut
    /\ (call.op = "withTimeout" /\ first # "none" /\ jobs = <<>>)
           => Settled("returned")

\* C13: for every interleaving of the given promise's settlement and the expiry
\* of the timer, the promise withTimeout returns settles exactly once, with
\* whichever happens first: the given promise's own value or rejection if it
\* settles before the timer fires, otherwise the 'promise timed out' rejection;
\* an event that occurs later never changes the settled outcome.
C13_FirstEventWins ==
    /\ []ReturnedFollowsFirst
    /\ [][Settled("returned") => promises'["returned"] = promises["returned"]]_vars

\* the timer fired first, the given promise was fulfilled afterwards, and the
\* returned promise is rejected with the time-out error
C13_Witness ==
    /\ first = "timer"
    /\ promises["promise"].state = "fulfilled"
    /\ jobs = <<>>
    /\ OutcomeOf("returned") = TimedOut

\* the given promise was rejected first, the timer fired afterwards, and the
\* returned promise holds the given promise's rejection
GivenRejectionBeforeTimerReached ==
    /\ first = "promise"
    /\ timer = "fired"
    /\ jobs = <<>>
    /\ promises["promise"].state = "rejected"
    /\ OutcomeOf("returned") = OutcomeOf("promise")

(***************************************************************************)
(* Elements that are `undefined`                                           *)
(***************************************************************************)
\* C14: extractAt returns undefined only when the index is out of range: for
\* every array over any element values, elements that are `undefined`
\* included, and every in-range integer index, extractAt returns the pair
\* (array[index], rest) and removeAt returns an array one element shorter.
C14_AbsentOnlyWhenOutOfRange ==
    /\ IntegerCall("extractAt") =>
           /\ result = Return(Undefined) => ~InRange(call.index.val, array.items)
           /\ InRange(call.index.val, array.items) =>
                  ReturnsPair(result,
                      array.items[Position(call.index.val, array.items) + 1],
                      Without(array.items, Position(call.index.val, array.items)))
    /\ (IntegerCall("removeAt") /\ InRange(call.index.val, array.items)) =>
           /\ ReturnsArray(result)
           /\ Len(result.value.items) = Len(array.items) - 1

\* On arrays of numbers, C14 holds.
AbsentOnlyWhenOutOfRangeOnNumbers ==
    (\A k \in 1..Len(array.items) : array.items[k] # Undefined)
        => C14_AbsentOnlyWhenOutOfRange

====
